---------------------------- MODULE Spec2Model ----------------------------
(***************************************************************************)
(* A model of SOCSEM 8.0.1 (COS_abiotic_biotic_soil_flux.py): the soil OCS *)
(* production curves, the shared moisture/temperature bell curve, the      *)
(* per-biome uptake models and the biome flux functions with their         *)
(* temperature gate and scalar/array dispatch.                             *)
(*                                                                         *)
(* Numbers.  The program computes in IEEE doubles through Python and numpy.*)
(* The model computes in a decimal floating point with a four digit        *)
(* mantissa (truncating), the doubles' range of magnitudes (about 4.9e-324 *)
(* to 1.797e308: beyond it a result is +-Inf or 0), signed zero, +-Inf and *)
(* NaN.  A value is a record                                               *)
(*     [k |-> kind, s |-> sign, m |-> mantissa, e |-> exponent, np |-> b]  *)
(* of kind "fin" (s * m * 10^e, m = 0 or 1000 <= m <= 9999), "inf", "nan"  *)
(* or "err".  np tells a numpy float64 (TRUE) from a Python float or int   *)
(* (FALSE): the two differ in what a division by zero does.  "err" is the  *)
(* outcome of an expression that raised an exception; every operation      *)
(* passes it on, as the exception unwinds the callers.                     *)
(***************************************************************************)
EXTENDS Integers, Sequences, FiniteSets, TLC

\* ------------------------------------------------------------------------
\* Values
\* ------------------------------------------------------------------------

\* The one element of a singleton set.  An operation below is written
\* Only({body : x \in {x0}}) so that its operand x0 is evaluated once, as
\* Python evaluates an operand before it applies the operator.
Only(S) == CHOOSE r \in S : TRUE

\* The outcome of an expression that raised (ZeroDivisionError).
Err == [k |-> "err", s |-> 1, m |-> 0, e |-> 0, np |-> FALSE]

\* numpy's nan.
NaN == [k |-> "nan", s |-> 1, m |-> 0, e |-> 0, np |-> TRUE]

\* numpy's +inf (s = 1) and -inf (s = -1).
Inf(s) == [k |-> "inf", s |-> s, m |-> 0, e |-> 0, np |-> TRUE]

\* +0.0 and -0.0.
Zero(s, np) == [k |-> "fin", s |-> s, m |-> 0, e |-> 0, np |-> np]

\* s * n * 10^e with n >= 0 any integer, brought to a four digit mantissa.
RECURSIVE Norm(_, _, _, _)
Norm(s, n, e, np) ==
    IF n = 0 THEN Zero(s, np)
    ELSE IF n >= 10000 THEN Norm(s, n \div 10, e + 1, np)
    ELSE IF n < 1000 THEN Norm(s, n * 10, e - 1, np)
    ELSE [k |-> "fin", s |-> s, m |-> n, e |-> e, np |-> np]

\* A Python float literal s * m * 10^e.
Py(s, m, e) == Norm(s, m, e, FALSE)

\* The same number as a numpy float64: an element read from an ndarray.
AsNp(x0) ==
    Only({IF x.k = "err" THEN x ELSE [x EXCEPT !.np = TRUE] : x \in {x0}})

IsZero(x) == x.k = "fin" /\ x.m = 0
IsFinite(x) == x.k = "fin"
IsNaN(x) == x.k = "nan"

\* Numeric equality (x == y in Python): -0.0 equals 0.0, nan equals nothing,
\* a Python float equals the numpy float64 of the same value.
NumEq(x, y) ==
    /\ x.k \in {"fin", "inf"}
    /\ x.k = y.k
    /\ \/ IsZero(x) /\ IsZero(y)
       \/ x.s = y.s /\ x.m = y.m /\ x.e = y.e

\* A faulty gate, x >= 0.0, against which property C1 is tested.
GeZero(x) == (x.k = "fin" /\ (x.m = 0 \/ x.s = 1)) \/ (x.k = "inf" /\ x.s = 1)

\* x > 0.0
GtZero(x) == (x.k = "fin" /\ x.m > 0 /\ x.s = 1) \/ (x.k = "inf" /\ x.s = 1)

\* x < 0.0
LtZero(x) == (x.k = "fin" /\ x.m > 0 /\ x.s = -1) \/ (x.k = "inf" /\ x.s = -1)

Pow10(n) == 10 ^ n

\* Value v as the type (Python float or numpy float64) an operation yields.
Typed(v, np) == [v EXCEPT !.np = np]

\* A finite result brought into the doubles' range: a magnitude above
\* 1.797e308 overflows to +-inf, one below 1e-324 underflows to +-0.0
\* (neither Python nor numpy raises on * / + -).
Ranged(x0) ==
    Only({IF x.k # "fin" \/ x.m = 0 THEN x
          ELSE IF x.e > 305 \/ (x.e = 305 /\ x.m > 1797) THEN Typed(Inf(x.s), x.np)
          ELSE IF x.e < -327 THEN Zero(x.s, x.np)
          ELSE x
        : x \in {x0}})

\* ------------------------------------------------------------------------
\* Arithmetic: float.__mul__ / numpy multiply and the like
\* ------------------------------------------------------------------------

\* -x
Neg(x0) ==
    Only({IF x.k \in {"err", "nan"} THEN x ELSE [x EXCEPT !.s = -x.s] : x \in {x0}})

\* x * y
Mul(x0, y0) ==
    Only({IF x.k = "err" \/ y.k = "err" THEN Err
        ELSE IF x.k = "nan" \/ y.k = "nan" THEN Typed(NaN, x.np \/ y.np)
        ELSE IF x.k = "inf" \/ y.k = "inf"
             THEN IF IsZero(x) \/ IsZero(y) THEN Typed(NaN, x.np \/ y.np)
                  ELSE Typed(Inf(x.s * y.s), x.np \/ y.np)
        ELSE IF x.m = 0 \/ y.m = 0 THEN Zero(x.s * y.s, x.np \/ y.np)
        ELSE IF x.m * y.m >= 10000000
             THEN Ranged([k |-> "fin", s |-> x.s * y.s, m |-> (x.m * y.m) \div 10000,
                          e |-> x.e + y.e + 4, np |-> x.np \/ y.np])
        ELSE Ranged([k |-> "fin", s |-> x.s * y.s, m |-> (x.m * y.m) \div 1000,
                     e |-> x.e + y.e + 3, np |-> x.np \/ y.np])
        : x \in {x0}, y \in {y0}})

\* x / y.  Python floats raise ZeroDivisionError on a zero divisor; as soon as
\* one operand is a numpy float64, numpy divides: x/0 is +-inf and 0/0 is nan.
Div(x0, y0) ==
    Only({IF x.k = "err" \/ y.k = "err" THEN Err
        ELSE IF IsZero(y) /\ ~x.np /\ ~y.np THEN Err
        ELSE IF x.k = "nan" \/ y.k = "nan" THEN Typed(NaN, x.np \/ y.np)
        ELSE IF IsZero(y)
             THEN IF IsZero(x) THEN NaN ELSE Inf(x.s * y.s)
        ELSE IF x.k = "inf"
             THEN IF y.k = "inf" THEN Typed(NaN, x.np \/ y.np)
                  ELSE Typed(Inf(x.s * y.s), x.np \/ y.np)
        ELSE IF y.k = "inf" \/ x.m = 0 THEN Zero(x.s * y.s, x.np \/ y.np)
        ELSE IF (x.m * 10000) \div y.m >= 10000
             THEN Ranged([k |-> "fin", s |-> x.s * y.s, m |-> (x.m * 1000) \div y.m,
                          e |-> x.e - y.e - 3, np |-> x.np \/ y.np])
        ELSE Ranged([k |-> "fin", s |-> x.s * y.s, m |-> (x.m * 10000) \div y.m,
                     e |-> x.e - y.e - 4, np |-> x.np \/ y.np])
        : x \in {x0}, y \in {y0}})

\* Finite x + y with x.e >= y.e: y's digits below x's last five are dropped.
AddAligned(x, y, np) ==
    IF x.e - y.e > 5 THEN [x EXCEPT !.np = np]
    ELSE LET t == x.s * x.m * Pow10(x.e - y.e) + y.s * y.m
         IN  IF t = 0 THEN Zero(1, np)
             ELSE IF t > 0 THEN Norm(1, t, y.e, np)
             ELSE Norm(-1, -t, y.e, np)

\* x + y
Add(x0, y0) ==
    Only({IF x.k = "err" \/ y.k = "err" THEN Err
        ELSE IF x.k = "nan" \/ y.k = "nan" THEN Typed(NaN, x.np \/ y.np)
        ELSE IF x.k = "inf"
             THEN IF y.k = "inf" /\ y.s # x.s THEN Typed(NaN, x.np \/ y.np)
                  ELSE Typed(Inf(x.s), x.np \/ y.np)
        ELSE IF y.k = "inf" THEN Typed(Inf(y.s), x.np \/ y.np)
        ELSE IF x.m = 0 /\ y.m = 0
             THEN Zero(IF x.s = -1 /\ y.s = -1 THEN -1 ELSE 1, x.np \/ y.np)
        ELSE IF x.m = 0 THEN [y EXCEPT !.np = x.np \/ y.np]
        ELSE IF y.m = 0 THEN [x EXCEPT !.np = x.np \/ y.np]
        ELSE IF x.e >= y.e THEN Ranged(AddAligned(x, y, x.np \/ y.np))
        ELSE Ranged(AddAligned(y, x, x.np \/ y.np))
        : x \in {x0}, y \in {y0}})

\* x - y
Sub(x, y) == Add(x, Neg(y))

\* ------------------------------------------------------------------------
\* np.exp, np.log and ** with a numpy exponent
\* ------------------------------------------------------------------------

\* Finite x in units of 10^-4, truncated (|x| < 10^5).
ToFixed(x) ==
    IF x.e >= -4 THEN x.s * x.m * Pow10(x.e + 4)
    ELSE IF x.e < -8 THEN 0
    ELSE x.s * (x.m \div Pow10(-4 - x.e))

\* sum over k >= i of h^k / k!, with t the (i-1)th term; h, t in units of 10^-4
RECURSIVE ExpSeries(_, _, _)
ExpSeries(h, t, i) ==
    IF t = 0 \/ i > 16 THEN 0
    ELSE LET u == (t * h) \div (i * 10000) IN u + ExpSeries(h, u, i + 1)

\* np.exp(x): e^x = 10^n * (e^(r/2))^2 with x = n ln10 + r, 0 <= r < ln10
\* (ln10 = 2.3026); |x| >= 10^4 is beyond the doubles' range.
Exp(x0) ==
    Only({IF x.k = "err" THEN Err
        ELSE IF x.k = "nan" THEN NaN
        ELSE IF x.k = "inf" THEN IF x.s = 1 THEN Inf(1) ELSE Zero(1, TRUE)
        ELSE IF x.m # 0 /\ x.e > 0
             THEN IF x.s = 1 THEN Inf(1) ELSE Zero(1, TRUE)
        ELSE LET Squared(n, r, sq) ==
                     Ranged(Norm(1, IF r % 2 = 1 THEN sq + sq \div 20000 ELSE sq,
                                 n - 4, TRUE))
                 Half(n, r, E) == Squared(n, r, (E * E) \div 10000)
                 Reduced(X) ==
                     Half(X \div 23026, X % 23026,
                          10000 + ExpSeries((X % 23026) \div 2, 10000, 1))
             IN  Reduced(ToFixed(x))
        : x \in {x0}})

\* z + z^3/3 + z^5/5 + z^7/7 + z^9/9 from the term p = z^k on; z, p in
\* units of 10^-4
RECURSIVE AtanhSeries(_, _, _)
AtanhSeries(z, p, k) ==
    IF k > 9 THEN 0
    ELSE p \div k + AtanhSeries(z, (p * ((z * z) \div 10000)) \div 10000, k + 2)

\* ln(Y/10000 * 2^c) in units of 10^-4 for Y in [10000, 100000): Y is halved
\* until 1 <= y < 2, then ln y = 2 atanh((y-1)/(y+1)) and ln2 = 0.6931.
RECURSIVE LogMantissa(_, _)
LogMantissa(Y, c) ==
    IF Y >= 20000 THEN LogMantissa(Y \div 2, c + 1)
    ELSE c * 6931 + 2 * AtanhSeries(((Y - 10000) * 10000) \div (Y + 10000),
                                    ((Y - 10000) * 10000) \div (Y + 10000), 1)

\* np.log(x): ln(m 10^e) = (e+3) ln10 + ln(m/1000); zero gives -inf and a
\* negative number nan (numpy warns, it does not raise).
Log(x0) ==
    Only({IF x.k = "err" THEN Err
        ELSE IF x.k = "nan" THEN NaN
        ELSE IF IsZero(x) THEN Inf(-1)
        ELSE IF x.s = -1 THEN NaN
        ELSE IF x.k = "inf" THEN Inf(1)
        ELSE LET Signed(L) ==
                     IF L >= 0 THEN Norm(1, L, -4, TRUE) ELSE Norm(-1, -L, -4, TRUE)
             IN  Signed((x.e + 3) * 23026 + LogMantissa(x.m * 10, 0))
        : x \in {x0}})

\* Whether finite a is an integer, and whether it is an odd one.
IsInteger(a) == a.m = 0 \/ a.e >= 0 \/ (a.e >= -3 /\ a.m % Pow10(-a.e) = 0)
IsOddInteger(a) ==
    a.m # 0 /\ a.e <= 0 /\ a.e >= -3 /\ a.m % Pow10(-a.e) = 0
    /\ (a.m \div Pow10(-a.e)) % 2 = 1

\* x ** a where a is a numpy float64 (numpy's power, C's pow): 1 ** a and
\* x ** 0 are 1 even for nan; a negative base with a fractional exponent is
\* nan; 0 ** a is 0 or inf; no case raises.
Pow(x0, a0) ==
    Only({IF x.k = "err" \/ a.k = "err" THEN Err
        ELSE IF x.k = "fin" /\ x.s = 1 /\ x.m = 1000 /\ x.e = -3
             THEN [x EXCEPT !.np = TRUE]
        ELSE IF IsZero(a) THEN Norm(1, 1, 0, TRUE)
        ELSE IF x.k = "nan" \/ a.k = "nan" THEN NaN
        ELSE IF a.k = "inf"
             THEN LET one == x.k = "fin" /\ x.m = 1000 /\ x.e = -3
                      big == x.k = "inf"
                             \/ (x.m # 0 /\ (x.e > -3 \/ (x.e = -3 /\ x.m > 1000)))
                  IN  IF one THEN Norm(1, 1, 0, TRUE)
                      ELSE IF big = (a.s = 1) THEN Inf(1) ELSE Zero(1, TRUE)
        ELSE IF IsZero(x) \/ x.k = "inf"
             THEN LET neg == x.s = -1 /\ IsOddInteger(a)
                      grows == (x.k = "inf") = (a.s = 1)
                  IN  IF grows THEN Inf(IF neg THEN -1 ELSE 1)
                      ELSE Zero(IF neg THEN -1 ELSE 1, TRUE)
        ELSE IF x.s = -1 /\ ~IsInteger(a) THEN NaN
        ELSE Only({IF x.s = -1 /\ IsOddInteger(a) THEN Neg(p) ELSE p
                 : p \in {Exp(Mul(a, Log(IF x.s = -1 THEN Neg(x) ELSE x)))}})
        : x \in {x0}, a \in {a0}})

\* ------------------------------------------------------------------------
\* Literals.  A literal of the source is rounded to four digits.
\* ------------------------------------------------------------------------

\* The Python ints 1 and -1 and the floats 0.0 of the source.
One == Py(1, 1, 0)
MinusOne == Py(-1, 1, 0)
ZeroFloat == Zero(1, FALSE)

\* ------------------------------------------------------------------------
\* Soil COS emission to the atmosphere: a / (1 + b e^(-k x))
\* ------------------------------------------------------------------------

OCS_rainforest_production(soil_temp) ==
    LET pru_a == Mul(Py(1, 27, -1), Py(1, 3, 0))
        pru_k == Py(1, 1236, -4)
        pru_b == Py(1, 205, 0)
    IN  Div(pru_a, Add(One, Mul(pru_b, Exp(Mul(Neg(pru_k), soil_temp)))))

OCS_forest_production(soil_temp) ==
    LET wrc_a == Py(1, 20, 0)
        wrc_k == Py(1, 1607, -4)
        wrc_b == Py(1, 6447, -1)
    IN  Div(wrc_a, Add(One, Mul(wrc_b, Exp(Mul(Neg(wrc_k), soil_temp)))))

OCS_ag_production(soil_temp) ==
    LET bond_a == Py(1, 83, 0)
        ok_k == Py(1, 8769, -5)
        ok_b == Py(1, 1469, -1)
    IN  Div(bond_a, Add(One, Mul(ok_b, Exp(Mul(Neg(ok_k), soil_temp)))))

OCS_grass_production(soil_temp) ==
    LET stunt_a == Py(1, 39, -1)
        stunt_k == Py(1, 1155, -4)
        stunt_b == Py(1, 286, 0)
    IN  Div(stunt_a, Add(One, Mul(stunt_b, Exp(Mul(Neg(stunt_k), soil_temp)))))

OCS_wetland_production(soil_temp) ==
    LET tx_a == Py(1, 295, 0)
        tx_k == Py(1, 7855, -5)
        tx_b == Py(1, 4117, -2)
    IN  Div(tx_a, Add(One, Mul(tx_b, Exp(Mul(Neg(tx_k), soil_temp)))))

\* ------------------------------------------------------------------------
\* Soil COS uptake from the atmosphere: the shared bell curve
\* ------------------------------------------------------------------------

\* A faulty shape exponent, ln(opt_flux) - ln(flux_at_theta_g) in place of
\* the logarithm of the ratio, against which property C8 is tested.
curve_shape_a_log_difference(opt_flux0, flux_at_theta_g0, theta_g0, theta_opt0) ==
    Only({LET outs == Sub(Log(opt_flux), Log(flux_at_theta_g))
              inversed == Add(Log(Div(theta_opt, theta_g)),
                              Sub(Div(theta_g, theta_opt), One))
              ins == Div(One, inversed)
          IN  Mul(outs, ins)
        : opt_flux \in {opt_flux0}, flux_at_theta_g \in {flux_at_theta_g0},
          theta_g \in {theta_g0}, theta_opt \in {theta_opt0}})

curve_shape_a(opt_flux0, flux_at_theta_g0, theta_g0, theta_opt0) ==
    Only({LET Rj == Div(opt_flux, flux_at_theta_g)
              outs == Log(Rj)
              inversed == Add(Log(Div(theta_opt, theta_g)),
                              Sub(Div(theta_g, theta_opt), One))
              ins == Div(One, inversed)
          IN  Mul(outs, ins)
        : opt_flux \in {opt_flux0}, flux_at_theta_g \in {flux_at_theta_g0},
          theta_g \in {theta_g0}, theta_opt \in {theta_opt0}})

\* A faulty bell curve, exp(-a*(all_theta/theta_opt)) without the "-1",
\* against which property C5 is tested.
flux_at_all_theta_unshifted(all_theta0, opt_flux0, flux_at_theta_g0, theta_g0, theta_opt0) ==
    Only({Only({LET power_fct_increasing == Pow(Div(all_theta, theta_opt), a)
                    exp_fct_decreasing ==
                        Exp(Mul(Mul(MinusOne, a), Div(all_theta, theta_opt)))
                IN  Mul(Mul(opt_flux, power_fct_increasing), exp_fct_decreasing)
              : a \in {curve_shape_a(opt_flux, flux_at_theta_g, theta_g, theta_opt)}})
        : all_theta \in {all_theta0}, opt_flux \in {opt_flux0},
          flux_at_theta_g \in {flux_at_theta_g0},
          theta_g \in {theta_g0}, theta_opt \in {theta_opt0}})

flux_at_all_theta(all_theta0, opt_flux0, flux_at_theta_g0, theta_g0, theta_opt0) ==
    Only({Only({LET power_fct_increasing == Pow(Div(all_theta, theta_opt), a)
                    exp_fct_decreasing ==
                        Exp(Mul(Mul(MinusOne, a),
                                Sub(Div(all_theta, theta_opt), One)))
                IN  Mul(Mul(opt_flux, power_fct_increasing), exp_fct_decreasing)
              : a \in {curve_shape_a(opt_flux, flux_at_theta_g, theta_g, theta_opt)}})
        : all_theta \in {all_theta0}, opt_flux \in {opt_flux0},
          flux_at_theta_g \in {flux_at_theta_g0},
          theta_g \in {theta_g0}, theta_opt \in {theta_opt0}})

\* The module-level name CONSTANT_PARAM as the module is loaded.
CONSTANT_PARAM_init == Py(1, 35, 0)

\* flux_theta_g_constant reads the module-level CONSTANT_PARAM when it is
\* called: g is the value the name holds then.
flux_theta_g_constant(all_theta0, opt_flux0, flux_at_theta_g0, theta_opt0, g0) ==
    Only({Only({LET power_fct_increasing == Pow(Div(all_theta, theta_opt), a)
                    exp_fct_decreasing ==
                        Exp(Mul(Mul(MinusOne, a),
                                Sub(Div(all_theta, theta_opt), One)))
                IN  Mul(Mul(opt_flux, power_fct_increasing), exp_fct_decreasing)
              : a \in {curve_shape_a(opt_flux, flux_at_theta_g, g, theta_opt)}})
        : all_theta \in {all_theta0}, opt_flux \in {opt_flux0},
          flux_at_theta_g \in {flux_at_theta_g0},
          theta_opt \in {theta_opt0}, g \in {g0}})

\* ------------------------------------------------------------------------
\* Empirically derived coefficients for uptake over varying temperatures
\* ------------------------------------------------------------------------

\* Each call of the bell curve is written with its argument list
\* <<opt_flux, flux_at_theta_g, theta_g, theta_opt>> as a definition of its
\* own (..._args), which the call then applies.
Curve(all_theta, args0) ==
    Only({flux_at_all_theta(all_theta, args[1], args[2], args[3], args[4])
        : args \in {args0}})

\* GRASSLAND SOIL
grass_opt_sw == Py(1, 125, -1)
grass_opt_uptake_args == <<Py(-1, 45, -1), Py(-1, 1483, -3), Py(1, 25, 0), Py(1, 1087, -2)>>
grass_opt_uptake(T) == Curve(T, grass_opt_uptake_args)
grass_other_uptake_args ==
    <<Py(-1, 2338, -3), Py(-1, 1277, -3), Py(1, 25, 0), Py(1, 1475, -2)>>
grass_other_uptake(T) == Curve(T, grass_other_uptake_args)
grass_uptake_args(T) ==
    <<grass_opt_uptake(T), grass_other_uptake(T), Py(1, 269, -1), grass_opt_sw>>
grass_uptake(T, SW) == Curve(SW, grass_uptake_args(T))

\* BOREAL FOREST SOIL
boreal_opt_sw == Py(1, 125, -1)
boreal_opt_uptake_args ==
    <<Py(-1, 1825, -2), Py(-1, 12, 0), Py(1, 35, 0), Py(1, 2805, -2)>>
boreal_opt_uptake(T) == Curve(T, boreal_opt_uptake_args)
boreal_other_uptake_args ==
    <<Py(-1, 5895, -3), Py(-1, 3766, -3), Py(1, 35, 0), Py(1, 2805, -2)>>
boreal_other_uptake(T) == Curve(T, boreal_other_uptake_args)
boreal_uptake_args(T) ==
    <<boreal_opt_uptake(T), boreal_other_uptake(T), Py(1, 193, -1), boreal_opt_sw>>
boreal_uptake(T, SW) == Curve(SW, boreal_uptake_args(T))

\* TEMPERATE FOREST SOIL
temperate_opt_sw == Py(1, 246, -1)
temperate_opt_uptake(T) == Py(-1, 126, -1)
temperate_other_uptake(T) == Add(Mul(Py(-1, 1763, -4), T), Py(1, 4791, -4))
temperate_uptake_args(T) ==
    <<temperate_opt_uptake(T), temperate_other_uptake(T), Py(1, 51, 0), temperate_opt_sw>>
temperate_uptake(T, SW) == Curve(SW, temperate_uptake_args(T))

\* TROPICAL FOREST SOIL
tropical_opt_sw == Py(1, 246, -1)
tropical_opt_uptake(T) == Py(-1, 27, -1)
tropical_other_uptake(T) == Py(-1, 86, -2)
tropical_uptake_args(T) ==
    <<tropical_opt_uptake(T), tropical_other_uptake(T), Py(1, 31, 0), tropical_opt_sw>>
tropical_uptake(T, SW) == Curve(SW, tropical_uptake_args(T))

\* AGRICULTURAL SOIL
ag_opt_sw == Py(1, 177, -1)
ag_opt_uptake == Py(-1, 97, -1)
ag_other_uptake == Py(-1, 536, -2)
ag_uptake_args(T) == <<ag_opt_uptake, ag_other_uptake, Py(1, 22, 0), ag_opt_sw>>
ag_uptake(T, SW) == Curve(SW, ag_uptake_args(T))

\* A faulty tropical_uptake that declares "global CONSTANT_PARAM", so that
\* its assignment rebinds the module-level name; property C10 is tested
\* against it.
tropical_uptake_global_CONSTANT_PARAM(g) == Py(1, 31, 0)

\* "CONSTANT_PARAM = 31." in tropical_uptake and "CONSTANT_PARAM = 22." in
\* ag_uptake: the functions declare no global, so the assignment binds a
\* local name of the call and the module-level name keeps its value g.
tropical_uptake_CONSTANT_PARAM(g) == g
ag_uptake_CONSTANT_PARAM(g) == g

\* ------------------------------------------------------------------------
\* Arguments and results: a scalar or an ndarray
\* ------------------------------------------------------------------------

\* A scalar argument (a Python or numpy float) and a one-dimensional ndarray
\* of float64.
Scalar(v) == [shape |-> "scalar", a |-> <<v>>]
Array(a) == [shape |-> "array", a |-> a]
Val(x) == x.a[1]

np_isscalar(x) == x.shape = "scalar"

\* np.array(temperature)*0.0: a new array, each element times 0.0.
TimesZero(x0) ==
    Only({[i \in 1..Len(x) |-> Mul(x[i], ZeroFloat)] : x \in {x0}})

\* np.where(temperature>0.0): the positions i >= n of the elements above 0,
\* in ascending order.
\* A faulty np.where that selects every position, against which property C2
\* is tested.
np_where_all(x) == [i \in 1..Len(x) |-> i]

RECURSIVE WhereFrom(_, _)
WhereFrom(x, n) ==
    IF n > Len(x) THEN <<>>
    ELSE IF GtZero(x[n]) THEN <<n>> \o WhereFrom(x, n + 1)
    ELSE WhereFrom(x, n + 1)
np_where_gt0(x) == WhereFrom(x, 1)

\* x[justright]
Take(x0, justright0) ==
    Only({[j \in 1..Len(justright) |-> x[justright[j]]]
        : x \in {x0}, justright \in {justright0}})

\* out[justright] = vals
Put(out0, justright0, vals0) ==
    Only({[i \in 1..Len(out) |->
              IF \E j \in 1..Len(justright) : justright[j] = i
              THEN vals[CHOOSE j \in 1..Len(justright) : justright[j] = i]
              ELSE out[i]]
        : out \in {out0}, justright \in {justright0}, vals \in {vals0}})

\* ------------------------------------------------------------------------
\* Soil uptake and emission together.  Each function yields its result
\* (out) and what the caller's two argument objects hold when it returns.
\* ------------------------------------------------------------------------

grass_soil_OCS(temperature, soilw) ==
    IF np_isscalar(temperature) /\ GtZero(Val(temperature))
    THEN LET biotic_flux == grass_uptake(Val(temperature), Val(soilw))
             abiotic_flux == OCS_grass_production(Val(temperature))
         IN  [out |-> Scalar(Add(biotic_flux, abiotic_flux)),
              temperature |-> temperature, soilw |-> soilw]
    ELSE IF ~np_isscalar(temperature)
    THEN LET out == TimesZero(temperature.a)
             justright == np_where_gt0(temperature.a)
             biotic_flux ==
                 [j \in 1..Len(justright) |->
                     grass_uptake(Take(temperature.a, justright)[j],
                         Take(soilw.a, justright)[j])]
             abiotic_flux ==
                 [j \in 1..Len(justright) |->
                     OCS_grass_production(Take(temperature.a, justright)[j])]
         IN  [out |-> Array(Put(out, justright,
                                [j \in 1..Len(justright) |->
                                    Add(biotic_flux[j], abiotic_flux[j])])),
              temperature |-> temperature, soilw |-> soilw]
    ELSE [out |-> Scalar(ZeroFloat), temperature |-> temperature, soilw |-> soilw]

\* A faulty bforest_soil_OCS that takes the temperate forest's uptake,
\* against which property C4 is tested.
bforest_soil_OCS_temperate_uptake(temperature, soilw) ==
    IF np_isscalar(temperature) /\ GtZero(Val(temperature))
    THEN LET biotic_flux == temperate_uptake(Val(temperature), Val(soilw))
             abiotic_flux == OCS_forest_production(Val(temperature))
         IN  [out |-> Scalar(Add(biotic_flux, abiotic_flux)),
              temperature |-> temperature, soilw |-> soilw]
    ELSE [out |-> Scalar(ZeroFloat), temperature |-> temperature, soilw |-> soilw]

bforest_soil_OCS(temperature, soilw) ==
    IF np_isscalar(temperature) /\ GtZero(Val(temperature))
    THEN LET biotic_flux == boreal_uptake(Val(temperature), Val(soilw))
             abiotic_flux == OCS_forest_production(Val(temperature))
         IN  [out |-> Scalar(Add(biotic_flux, abiotic_flux)),
              temperature |-> temperature, soilw |-> soilw]
    ELSE IF ~np_isscalar(temperature)
    THEN LET out == TimesZero(temperature.a)
             justright == np_where_gt0(temperature.a)
             biotic_flux ==
                 [j \in 1..Len(justright) |->
                     boreal_uptake(Take(temperature.a, justright)[j],
                         Take(soilw.a, justright)[j])]
             abiotic_flux ==
                 [j \in 1..Len(justright) |->
                     OCS_forest_production(Take(temperature.a, justright)[j])]
         IN  [out |-> Array(Put(out, justright,
                                [j \in 1..Len(justright) |->
                                    Add(biotic_flux[j], abiotic_flux[j])])),
              temperature |-> temperature, soilw |-> soilw]
    ELSE [out |-> Scalar(ZeroFloat), temperature |-> temperature, soilw |-> soilw]

tforest_soil_OCS(temperature, soilw) ==
    IF np_isscalar(temperature) /\ GtZero(Val(temperature))
    THEN LET biotic_flux == temperate_uptake(Val(temperature), Val(soilw))
             abiotic_flux == OCS_forest_production(Val(temperature))
         IN  [out |-> Scalar(Add(biotic_flux, abiotic_flux)),
              temperature |-> temperature, soilw |-> soilw]
    ELSE IF ~np_isscalar(temperature)
    THEN LET out == TimesZero(temperature.a)
             justright == np_where_gt0(temperature.a)
             biotic_flux ==
                 [j \in 1..Len(justright) |->
                     temperate_uptake(Take(temperature.a, justright)[j],
                         Take(soilw.a, justright)[j])]
             abiotic_flux ==
                 [j \in 1..Len(justright) |->
                     OCS_forest_production(Take(temperature.a, justright)[j])]
         IN  [out |-> Array(Put(out, justright,
                                [j \in 1..Len(justright) |->
                                    Add(biotic_flux[j], abiotic_flux[j])])),
              temperature |-> temperature, soilw |-> soilw]
    ELSE [out |-> Scalar(ZeroFloat), temperature |-> temperature, soilw |-> soilw]

tropforest_soil_OCS(temperature, soilw) ==
    IF np_isscalar(temperature) /\ GtZero(Val(temperature))
    THEN LET biotic_flux == tropical_uptake(Val(temperature), Val(soilw))
             abiotic_flux == OCS_rainforest_production(Val(temperature))
         IN  [out |-> Scalar(Add(biotic_flux, abiotic_flux)),
              temperature |-> temperature, soilw |-> soilw]
    ELSE IF ~np_isscalar(temperature)
    THEN LET out == TimesZero(temperature.a)
             justright == np_where_gt0(temperature.a)
             biotic_flux ==
                 [j \in 1..Len(justright) |->
                     tropical_uptake(Take(temperature.a, justright)[j],
                         Take(soilw.a, justright)[j])]
             abiotic_flux ==
                 [j \in 1..Len(justright) |->
                     OCS_rainforest_production(Take(temperature.a, justright)[j])]
         IN  [out |-> Array(Put(out, justright,
                                [j \in 1..Len(justright) |->
                                    Add(biotic_flux[j], abiotic_flux[j])])),
              temperature |-> temperature, soilw |-> soilw]
    ELSE [out |-> Scalar(ZeroFloat), temperature |-> temperature, soilw |-> soilw]

ag_soil_OCS(temperature, soilw) ==
    IF np_isscalar(temperature) /\ GtZero(Val(temperature))
    THEN LET biotic_flux == ag_uptake(Val(temperature), Val(soilw))
             abiotic_flux == OCS_ag_production(Val(temperature))
         IN  [out |-> Scalar(Add(biotic_flux, abiotic_flux)),
              temperature |-> temperature, soilw |-> soilw]
    ELSE IF ~np_isscalar(temperature)
    THEN LET out == TimesZero(temperature.a)
             justright == np_where_gt0(temperature.a)
             biotic_flux ==
                 [j \in 1..Len(justright) |->
                     ag_uptake(Take(temperature.a, justright)[j],
                         Take(soilw.a, justright)[j])]
             abiotic_flux ==
                 [j \in 1..Len(justright) |->
                     OCS_ag_production(Take(temperature.a, justright)[j])]
         IN  [out |-> Array(Put(out, justright,
                                [j \in 1..Len(justright) |->
                                    Add(biotic_flux[j], abiotic_flux[j])])),
              temperature |-> temperature, soilw |-> soilw]
    ELSE [out |-> Scalar(ZeroFloat), temperature |-> temperature, soilw |-> soilw]

\* A faulty wetland_OCS with the other biomes' temperature gate, against
\* which property C3 is tested.
wetland_OCS_gated(temperature, soilw) ==
    [out |-> IF np_isscalar(temperature)
             THEN Scalar(IF GtZero(Val(temperature))
                         THEN OCS_wetland_production(Val(temperature))
                         ELSE ZeroFloat)
             ELSE Array([i \in 1..Len(temperature.a) |->
                            IF GtZero(temperature.a[i])
                            THEN OCS_wetland_production(temperature.a[i])
                            ELSE ZeroFloat]),
     temperature |-> temperature, soilw |-> soilw]

wetland_OCS(temperature, soilw) ==
    [out |-> IF np_isscalar(temperature)
             THEN Scalar(OCS_wetland_production(Val(temperature)))
             ELSE Array([i \in 1..Len(temperature.a) |->
                            OCS_wetland_production(temperature.a[i])]),
     temperature |-> temperature, soilw |-> soilw]

\* The soilw a call of wetland_OCS gets when the caller leaves it out.
wetland_OCS_default_soilw == Scalar(Py(1, 0, 0))

\* ------------------------------------------------------------------------
\* The callers' inputs
\* ------------------------------------------------------------------------

\* Scalar temperatures run over -10, 0, 10, ..., 10 * MaxTempStep degrees C.
MaxTempStep == 3

\* ndarrays hold up to MaxLen elements.
MaxLen == 2

FromInt(i) == IF i >= 0 THEN Py(1, i, 0) ELSE Py(-1, -i, 0)

\* Scalar temperatures, as Python floats and as numpy float64: the grid,
\* 1 degree C, and 2.718, where the temperate forest's linear fit
\* -0.17629655*T + 0.47914552 evaluates to exactly 0.0 (in doubles it does
\* at T = 2.7178383241192186).
PyTemperatures ==
    {FromInt(10 * i) : i \in -1..MaxTempStep} \cup {Py(1, 1, 0), Py(1, 2718, -3)}
Temperatures == PyTemperatures \cup {AsNp(T) : T \in PyTemperatures}

\* Scalar soil moistures in %VWC: the biomes' optima 12.5, 17.7 and 24.6,
\* and 20, 0 and -5.
Moistures ==
    {Py(1, 125, -1), Py(1, 177, -1), Py(1, 246, -1), Py(1, 20, 0),
     Py(1, 0, 0), Py(-1, 5, 0)}

\* The elements of the ndarrays: float64.
ArrayTemperatures ==
    {AsNp(Py(-1, 10, 0)), AsNp(Py(1, 0, 0)), AsNp(Py(1, 2718, -3)), AsNp(Py(1, 20, 0))}
ArrayMoistures == {AsNp(Py(1, 125, -1)), AsNp(Py(1, 246, -1))}

\* The pairs <<temperature, soilw>> a biome function is called with: two
\* scalars, or two ndarrays of one shape.
ScalarInputs == {<<Scalar(T), Scalar(SW)>> : T \in Temperatures, SW \in Moistures}
ArrayInputs ==
    UNION {{<<Array([i \in 1..n |-> p[i][1]]), Array([i \in 1..n |-> p[i][2]])>> :
               p \in [1..n -> ArrayTemperatures \X ArrayMoistures]} : n \in 0..MaxLen}
BiomeInputs == ScalarInputs \cup ArrayInputs

\* The fluxes and moistures the curve functions are called with directly.
Fluxes ==
    {Py(-1, 126, -1), Py(-1, 45, -1), Py(1, 45, -1), Py(1, 86, -2), Py(1, 0, 0),
     Py(1, 1, 200), Py(1, 1, -200)}
Thetas == {Py(1, 0, 0), Py(1, 125, -1), Py(1, 25, 0), Py(1, 35, 0)}

\* ------------------------------------------------------------------------
\* State: a caller calling the module's functions one after the other
\* ------------------------------------------------------------------------

VARIABLES
    pc,              \* "idle", or "returned" when a call has just ended
    CONSTANT_PARAM,  \* the module-level name CONSTANT_PARAM
    call,            \* the call that ended: its function and its arguments
    ret,             \* what that call returned (or Err when it raised)
    mem,             \* what the caller's argument objects hold after it
    assigned         \* whether a call so far has run "CONSTANT_PARAM = 31."
                     \* or "CONSTANT_PARAM = 22."

vars == <<pc, CONSTANT_PARAM, call, ret, mem, assigned>>

NoCall == [fn |-> "none", args |-> <<>>]

Init ==
    /\ pc = "idle"
    /\ CONSTANT_PARAM = CONSTANT_PARAM_init
    /\ call = NoCall
    /\ ret = Scalar(ZeroFloat)
    /\ mem = <<>>
    /\ assigned = FALSE

\* Whether a call of the biome function reaches its uptake function: in the
\* scalar branch for temperature > 0, in the array branch always.
ReachesUptake(temperature) ==
    ~np_isscalar(temperature) \/ GtZero(Val(temperature))

Call_grass_soil_OCS ==
    /\ pc = "idle"
    /\ \E inp \in BiomeInputs :
          \E r \in {grass_soil_OCS(inp[1], inp[2])} :
              /\ call' = [fn |-> "grass_soil_OCS", args |-> inp]
              /\ ret' = r.out
              /\ mem' = <<r.temperature, r.soilw>>
    /\ pc' = "returned"
    /\ UNCHANGED <<CONSTANT_PARAM, assigned>>

Call_bforest_soil_OCS ==
    /\ pc = "idle"
    /\ \E inp \in BiomeInputs :
          \E r \in {bforest_soil_OCS(inp[1], inp[2])} :
              /\ call' = [fn |-> "bforest_soil_OCS", args |-> inp]
              /\ ret' = r.out
              /\ mem' = <<r.temperature, r.soilw>>
    /\ pc' = "returned"
    /\ UNCHANGED <<CONSTANT_PARAM, assigned>>

Call_tforest_soil_OCS ==
    /\ pc = "idle"
    /\ \E inp \in BiomeInputs :
          \E r \in {tforest_soil_OCS(inp[1], inp[2])} :
              /\ call' = [fn |-> "tforest_soil_OCS", args |-> inp]
              /\ ret' = r.out
              /\ mem' = <<r.temperature, r.soilw>>
    /\ pc' = "returned"
    /\ UNCHANGED <<CONSTANT_PARAM, assigned>>

Call_tropforest_soil_OCS ==
    /\ pc = "idle"
    /\ \E inp \in BiomeInputs :
          \E r \in {tropforest_soil_OCS(inp[1], inp[2])} :
              /\ call' = [fn |-> "tropforest_soil_OCS", args |-> inp]
              /\ ret' = r.out
              /\ mem' = <<r.temperature, r.soilw>>
              /\ CONSTANT_PARAM' =
                    IF ReachesUptake(inp[1])
                    THEN tropical_uptake_CONSTANT_PARAM(CONSTANT_PARAM)
                    ELSE CONSTANT_PARAM
              /\ assigned' = (assigned \/ ReachesUptake(inp[1]))
    /\ pc' = "returned"

Call_ag_soil_OCS ==
    /\ pc = "idle"
    /\ \E inp \in BiomeInputs :
          \E r \in {ag_soil_OCS(inp[1], inp[2])} :
              /\ call' = [fn |-> "ag_soil_OCS", args |-> inp]
              /\ ret' = r.out
              /\ mem' = <<r.temperature, r.soilw>>
              /\ CONSTANT_PARAM' =
                    IF ReachesUptake(inp[1])
                    THEN ag_uptake_CONSTANT_PARAM(CONSTANT_PARAM)
                    ELSE CONSTANT_PARAM
              /\ assigned' = (assigned \/ ReachesUptake(inp[1]))
    /\ pc' = "returned"

\* wetland_OCS(temperature) and wetland_OCS(temperature, soilw)
Call_wetland_OCS ==
    /\ pc = "idle"
    /\ \E inp \in BiomeInputs, omitted \in BOOLEAN :
          \E r \in {wetland_OCS(inp[1], IF omitted THEN wetland_OCS_default_soilw
                                         ELSE inp[2])} :
              /\ call' = [fn |-> "wetland_OCS",
                          args |-> IF omitted THEN <<inp[1]>> ELSE inp]
              /\ ret' = r.out
              /\ mem' = IF omitted THEN <<r.temperature>>
                        ELSE <<r.temperature, r.soilw>>
    /\ pc' = "returned"
    /\ UNCHANGED <<CONSTANT_PARAM, assigned>>

Call_curve_shape_a ==
    /\ pc = "idle"
    /\ \E opt_flux \in Fluxes, flux_at_theta_g \in Fluxes,
          theta_g \in Thetas, theta_opt \in Thetas :
          LET args == <<Scalar(opt_flux), Scalar(flux_at_theta_g),
                        Scalar(theta_g), Scalar(theta_opt)>>
          IN  /\ call' = [fn |-> "curve_shape_a", args |-> args]
              /\ ret' = Scalar(curve_shape_a(opt_flux, flux_at_theta_g,
                                             theta_g, theta_opt))
              /\ mem' = args
    /\ pc' = "returned"
    /\ UNCHANGED <<CONSTANT_PARAM, assigned>>

Call_flux_at_all_theta ==
    /\ pc = "idle"
    /\ \E all_theta \in Thetas, opt_flux \in Fluxes, flux_at_theta_g \in Fluxes,
          theta_g \in Thetas, theta_opt \in Thetas :
          LET args == <<Scalar(all_theta), Scalar(opt_flux), Scalar(flux_at_theta_g),
                        Scalar(theta_g), Scalar(theta_opt)>>
          IN  /\ call' = [fn |-> "flux_at_all_theta", args |-> args]
              /\ ret' = Scalar(flux_at_all_theta(all_theta, opt_flux, flux_at_theta_g,
                                                 theta_g, theta_opt))
              /\ mem' = args
    /\ pc' = "returned"
    /\ UNCHANGED <<CONSTANT_PARAM, assigned>>

Call_flux_theta_g_constant ==
    /\ pc = "idle"
    /\ \E all_theta \in Thetas, opt_flux \in Fluxes, flux_at_theta_g \in Fluxes,
          theta_opt \in Thetas :
          LET args == <<Scalar(all_theta), Scalar(opt_flux), Scalar(flux_at_theta_g),
                        Scalar(theta_opt)>>
          IN  /\ call' = [fn |-> "flux_theta_g_constant", args |-> args]
              /\ ret' = Scalar(flux_theta_g_constant(all_theta, opt_flux,
                                   flux_at_theta_g, theta_opt, CONSTANT_PARAM))
              /\ mem' = args
    /\ pc' = "returned"
    /\ UNCHANGED <<CONSTANT_PARAM, assigned>>

\* The caller drops the result and goes on to its next call.
Return ==
    /\ pc = "returned"
    /\ pc' = "idle"
    /\ call' = NoCall
    /\ ret' = Scalar(ZeroFloat)
    /\ mem' = <<>>
    /\ UNCHANGED <<CONSTANT_PARAM, assigned>>

Next ==
    \/ Call_grass_soil_OCS
    \/ Call_bforest_soil_OCS
    \/ Call_tforest_soil_OCS
    \/ Call_tropforest_soil_OCS
    \/ Call_ag_soil_OCS
    \/ Call_wetland_OCS
    \/ Call_curve_shape_a
    \/ Call_flux_at_all_theta
    \/ Call_flux_theta_g_constant
    \/ Return

Spec == Init /\ [][Next]_vars

\* ------------------------------------------------------------------------
\* Properties
\* ------------------------------------------------------------------------

NonWetland ==
    {"grass_soil_OCS", "bforest_soil_OCS", "tforest_soil_OCS",
     "tropforest_soil_OCS", "ag_soil_OCS"}

\* A call of one of the functions fns has just returned.
Returned(fns) == pc = "returned" /\ call.fn \in fns

\* x <= 0 and x > 0 for a real x, read off the value itself.
AtMostZero(x) == x.k = "fin" /\ (x.m = 0 \/ x.s = -1)
AboveZero(x) == x.k = "fin" /\ x.m > 0 /\ x.s = 1

\* The same outcome: numerically equal, both nan, or both raised.
Same(x, y) ==
    NumEq(x, y) \/ (IsNaN(x) /\ IsNaN(y)) \/ (x.k = "err" /\ y.k = "err")

\* Per biome function: its biotic uptake, the abiotic production the biome
\* is assigned, its optimum moisture and its uptake at optimum moisture.
BiomeUptake(fn, T, SW) ==
    CASE fn = "grass_soil_OCS" -> grass_uptake(T, SW)
      [] fn = "bforest_soil_OCS" -> boreal_uptake(T, SW)
      [] fn = "tforest_soil_OCS" -> temperate_uptake(T, SW)
      [] fn = "tropforest_soil_OCS" -> tropical_uptake(T, SW)
      [] fn = "ag_soil_OCS" -> ag_uptake(T, SW)

BiomeProduction(fn, T) ==
    CASE fn = "grass_soil_OCS" -> OCS_grass_production(T)
      [] fn = "bforest_soil_OCS" -> OCS_forest_production(T)
      [] fn = "tforest_soil_OCS" -> OCS_forest_production(T)
      [] fn = "tropforest_soil_OCS" -> OCS_rainforest_production(T)
      [] fn = "ag_soil_OCS" -> OCS_ag_production(T)

BiomeOptSw(fn) ==
    CASE fn = "grass_soil_OCS" -> Py(1, 125, -1)
      [] fn = "bforest_soil_OCS" -> Py(1, 125, -1)
      [] fn = "tforest_soil_OCS" -> Py(1, 246, -1)
      [] fn = "tropforest_soil_OCS" -> Py(1, 246, -1)
      [] fn = "ag_soil_OCS" -> Py(1, 177, -1)

BiomeOptUptake(fn, T) ==
    CASE fn = "grass_soil_OCS" -> grass_opt_uptake(T)
      [] fn = "bforest_soil_OCS" -> boreal_opt_uptake(T)
      [] fn = "tforest_soil_OCS" -> temperate_opt_uptake(T)
      [] fn = "tropforest_soil_OCS" -> tropical_opt_uptake(T)
      [] fn = "ag_soil_OCS" -> ag_opt_uptake

\* The scalar call of biome function fn.
BiomeScalarCall(fn, T, SW) ==
    CASE fn = "grass_soil_OCS" -> Val(grass_soil_OCS(Scalar(T), Scalar(SW)).out)
      [] fn = "bforest_soil_OCS" -> Val(bforest_soil_OCS(Scalar(T), Scalar(SW)).out)
      [] fn = "tforest_soil_OCS" -> Val(tforest_soil_OCS(Scalar(T), Scalar(SW)).out)
      [] fn = "tropforest_soil_OCS" ->
             Val(tropforest_soil_OCS(Scalar(T), Scalar(SW)).out)
      [] fn = "ag_soil_OCS" -> Val(ag_soil_OCS(Scalar(T), Scalar(SW)).out)

\* The argument lists <<opt_flux, flux_at_theta_g, theta_g, theta_opt>> of
\* the bell curve calls that biome function fn's uptake model makes at T.
UptakeCurveCalls(fn, T) ==
    CASE fn = "grass_soil_OCS" ->
             {grass_opt_uptake_args, grass_other_uptake_args, grass_uptake_args(T)}
      [] fn = "bforest_soil_OCS" ->
             {boreal_opt_uptake_args, boreal_other_uptake_args, boreal_uptake_args(T)}
      [] fn = "tforest_soil_OCS" -> {temperate_uptake_args(T)}
      [] fn = "tropforest_soil_OCS" -> {tropical_uptake_args(T)}
      [] fn = "ag_soil_OCS" -> {ag_uptake_args(T)}

\* C1: a non-wetland biome function called with a scalar temperature T <= 0
\* (T = 0 included) and any moisture returns exactly 0.
C1_ZeroAtOrBelowFreezing ==
    (Returned(NonWetland) /\ np_isscalar(call.args[1])
        /\ AtMostZero(Val(call.args[1])))
    => (np_isscalar(ret) /\ Val(ret) = ZeroFloat)

\* A call at exactly T = 0 with a moisture other than 0 returned 0.
C1_Witness ==
    /\ Returned(NonWetland) /\ np_isscalar(call.args[1])
    /\ IsZero(Val(call.args[1])) /\ ~IsZero(Val(call.args[2]))
    /\ Val(ret) = ZeroFloat

\* C2: a non-wetland biome function called with two arrays of one shape
\* returns an array of that shape whose element i is what the scalar call on
\* (temperature[i], moisture[i]) returns: 0 where temperature[i] <= 0, biotic
\* plus abiotic flux where temperature[i] > 0.
C2_ElementwiseIsScalar ==
    (Returned(NonWetland) /\ ~np_isscalar(call.args[1]))
    => /\ ~np_isscalar(ret)
       /\ Len(ret.a) = Len(call.args[1].a)
       /\ \A i \in 1..Len(call.args[1].a) :
             /\ Same(ret.a[i],
                     BiomeScalarCall(call.fn, call.args[1].a[i], call.args[2].a[i]))
             /\ AtMostZero(call.args[1].a[i]) => IsZero(ret.a[i])
             /\ AboveZero(call.args[1].a[i]) =>
                   ret.a[i] = Add(BiomeUptake(call.fn, call.args[1].a[i],
                                              call.args[2].a[i]),
                                  BiomeProduction(call.fn, call.args[1].a[i]))

\* A call with two elements, the first frozen and the second not, returned 0
\* and a finite flux other than 0.
C2_Witness ==
    /\ Returned(NonWetland) /\ ~np_isscalar(call.args[1])
    /\ Len(call.args[1].a) = 2
    /\ AtMostZero(call.args[1].a[1]) /\ AboveZero(call.args[1].a[2])
    /\ IsZero(ret.a[1]) /\ IsFinite(ret.a[2]) /\ ~IsZero(ret.a[2])

\* C3: wetland_OCS returns OCS_wetland_production(temperature) at every
\* temperature, T <= 0 included, whatever the moisture argument, supplied
\* or left out.
C3_WetlandIsProduction ==
    Returned({"wetland_OCS"})
    => IF np_isscalar(call.args[1])
       THEN ret = Scalar(OCS_wetland_production(Val(call.args[1])))
       ELSE /\ ~np_isscalar(ret)
            /\ Len(ret.a) = Len(call.args[1].a)
            /\ \A i \in 1..Len(call.args[1].a) :
                  ret.a[i] = OCS_wetland_production(call.args[1].a[i])

\* A call below 0 degrees with a moisture supplied returned a positive flux.
C3_Witness ==
    /\ Returned({"wetland_OCS"}) /\ Len(call.args) = 2
    /\ np_isscalar(call.args[1])
    /\ AtMostZero(Val(call.args[1])) /\ ~IsZero(Val(call.args[1]))
    /\ ~IsZero(Val(call.args[2]))
    /\ AboveZero(Val(ret))

\* C4: at a scalar T > 0 a non-wetland biome function returns its own biotic
\* uptake at (T, SW) plus its assigned abiotic production at T; boreal and
\* temperate forest share OCS_forest_production and differ in their uptake.
C4_BioticPlusAbiotic ==
    (Returned(NonWetland) /\ np_isscalar(call.args[1])
        /\ AboveZero(Val(call.args[1])))
    => ret = Scalar(Add(BiomeUptake(call.fn, Val(call.args[1]), Val(call.args[2])),
                        BiomeProduction(call.fn, Val(call.args[1]))))

\* A boreal forest call at T > 0 returned a finite flux that is not what the
\* temperate forest's uptake would have given.
C4_Witness ==
    /\ Returned({"bforest_soil_OCS"}) /\ np_isscalar(call.args[1])
    /\ AboveZero(Val(call.args[1]))
    /\ IsFinite(Val(ret)) /\ ~IsZero(Val(ret))
    /\ Val(ret) # Add(temperate_uptake(Val(call.args[1]), Val(call.args[2])),
                      OCS_forest_production(Val(call.args[1])))

\* Valid shape parameters: both fluxes nonzero with one sign, both moistures
\* above 0 and different.
ValidShape(opt_flux, flux_at_theta_g, theta_g, theta_opt) ==
    /\ IsFinite(opt_flux) /\ ~IsZero(opt_flux)
    /\ IsFinite(flux_at_theta_g) /\ ~IsZero(flux_at_theta_g)
    /\ opt_flux.s = flux_at_theta_g.s
    /\ AboveZero(theta_g) /\ AboveZero(theta_opt)
    /\ ~NumEq(theta_g, theta_opt)

\* A call flux_at_all_theta(theta_opt, ...) with valid shape parameters.
AtOptimum ==
    /\ Returned({"flux_at_all_theta"})
    /\ ValidShape(Val(call.args[2]), Val(call.args[3]), Val(call.args[4]),
                  Val(call.args[5]))
    /\ NumEq(Val(call.args[1]), Val(call.args[5]))

\* C5 as stated: flux_at_all_theta at all_theta = theta_opt returns opt_flux
\* for any valid shape parameters, whatever the shape exponent a.
C5_OptimumReturnsOptFlux ==
    AtOptimum => NumEq(Val(ret), Val(call.args[2]))

\* C5 amended: flux_at_all_theta at all_theta = theta_opt returns opt_flux for
\* valid shape parameters whose shape exponent a is finite.
C5_OptimumReturnsOptFluxFiniteA ==
    (AtOptimum /\ IsFinite(curve_shape_a(Val(call.args[2]), Val(call.args[3]),
                                         Val(call.args[4]), Val(call.args[5]))))
    => NumEq(Val(ret), Val(call.args[2]))

\* A call at the optimum with a finite shape exponent other than 0 returned
\* opt_flux.
C5_Witness ==
    /\ AtOptimum
    /\ IsFinite(curve_shape_a(Val(call.args[2]), Val(call.args[3]),
                              Val(call.args[4]), Val(call.args[5])))
    /\ ~IsZero(curve_shape_a(Val(call.args[2]), Val(call.args[3]),
                             Val(call.args[4]), Val(call.args[5])))
    /\ NumEq(Val(ret), Val(call.args[2]))

\* C6 as stated: at a scalar T > 0 and the biome's optimum moisture a
\* non-wetland biome function returns the biome's optimum uptake at T plus
\* its abiotic production at T.
C6_OptimumMoistureCollapses ==
    (Returned(NonWetland) /\ np_isscalar(call.args[1])
        /\ AboveZero(Val(call.args[1]))
        /\ NumEq(Val(call.args[2]), BiomeOptSw(call.fn)))
    => NumEq(Val(ret), Add(BiomeOptUptake(call.fn, Val(call.args[1])),
                           BiomeProduction(call.fn, Val(call.args[1]))))

\* C7 as stated: no biome function ends in an error; a degenerate input
\* gives nan or inf in the value returned.
C7_NoErrorOutcome ==
    Returned(NonWetland \cup {"wetland_OCS"})
    => \A i \in 1..Len(ret.a) : ret.a[i].k # "err"

\* C8: curve_shape_a gives the same for (opt_flux, flux_at_theta_g) and for
\* (-opt_flux, -flux_at_theta_g), whatever the two moistures.
C8_ShapeSymmetricUnderNegation ==
    (Returned({"curve_shape_a"}) /\ ~IsZero(Val(call.args[1]))
        /\ ~IsZero(Val(call.args[2])))
    => ret = Scalar(curve_shape_a(Neg(Val(call.args[1])), Neg(Val(call.args[2])),
                                  Val(call.args[3]), Val(call.args[4])))

\* A call with two positive fluxes returned a finite exponent other than 0.
C8_Witness ==
    /\ Returned({"curve_shape_a"})
    /\ AboveZero(Val(call.args[1])) /\ AboveZero(Val(call.args[2]))
    /\ IsFinite(Val(ret)) /\ ~IsZero(Val(ret))

\* The shape exponent's preconditions on an argument list.
ShapePreconditions(args) ==
    /\ IsFinite(args[1]) /\ ~IsZero(args[1])
    /\ IsFinite(args[2]) /\ ~IsZero(args[2])
    /\ args[1].s = args[2].s
    /\ ~NumEq(args[1], args[2])
    /\ AboveZero(args[3]) /\ AboveZero(args[4])
    /\ AboveZero(Sub(args[3], args[4]))

\* The temperatures above 0 that a call of a biome function hands on.
PositiveTemperatures ==
    {call.args[1].a[i] : i \in {j \in 1..Len(call.args[1].a) :
                                    AboveZero(call.args[1].a[j])}}

\* C9 as stated: every bell curve call an uptake model makes at a T > 0 is
\* given an optimum flux and a reference flux that are nonzero, of one sign
\* and different, and a reference point above the optimum point.
C9_ShapePreconditionsHold ==
    Returned(NonWetland)
    => \A T \in PositiveTemperatures :
          \A args \in UptakeCurveCalls(call.fn, T) : ShapePreconditions(args)

\* C10: whatever calls came before, CONSTANT_PARAM is 35, the caller's
\* argument objects hold what they held, and flux_theta_g_constant returns
\* the bell curve of its own arguments with theta_g = 35.
C10_NoSideEffects ==
    /\ CONSTANT_PARAM = Py(1, 35, 0)
    /\ pc = "returned" => mem = call.args
    /\ Returned({"flux_theta_g_constant"})
       => ret = Scalar(flux_at_all_theta(Val(call.args[1]), Val(call.args[2]),
                                         Val(call.args[3]), Py(1, 35, 0),
                                         Val(call.args[4])))

\* flux_theta_g_constant returned a finite flux other than 0 after a call of
\* tropical_uptake or ag_uptake had made its assignment.
C10_Witness ==
    /\ assigned
    /\ Returned({"flux_theta_g_constant"})
    /\ IsFinite(Val(ret)) /\ ~IsZero(Val(ret))

=============================================================================
